---------------------------- MODULE Spec2Model ----------------------------
(***************************************************************************)
(* A model of the helmet portfolio scene's input-smoothing code:           *)
(*                                                                         *)
(*   - approach(), the damped-approach primitive;                          *)
(*   - GlobalClickSound: the click-sound dispatch on pointer-down, the     *)
(*     wheel-driven scroll sound and its per-frame tick, and the effect    *)
(*     cleanup;                                                            *)
(*   - the scene: ImageTube's per-frame scroll easing with its loop wrap,  *)
(*     its spin and angle, FiberScene's wheel handler and HelmetModel's    *)
(*     per-frame yaw.                                                      *)
(*                                                                         *)
(* Numbers.  The source computes in IEEE doubles; the model computes in    *)
(* exact fixed point.  Time is in whole milliseconds.  A volume v is the   *)
(* integer v * VolScale, a playback rate r is r * RateScale, the wheel     *)
(* intensity i is i * IntensityScale, a tube scroll coordinate s is        *)
(* s * TubeScale, an angular velocity w is w * SpinScale, an angle a is    *)
(* a * AngleScale and the scene's frame time is counted in sixtieths of a  *)
(* second.  The scales are chosen so that the products the sound code      *)
(* forms from a whole number of milliseconds and a whole deltaY are whole  *)
(* numbers; the scene's products are rounded toward 0 (the easing of the   *)
(* scroll: down).  Floating-point rounding is not modelled.                *)
(*                                                                         *)
(* Clocks.  The source keeps timestamps (lastPointerDownAtRef,             *)
(* lastWheelAtRef, lastRafAt) and only ever reads them in differences      *)
(* with performance.now().  The model keeps those differences              *)
(* (sincePointerDown, sinceWheel, sinceRaf), each saturated at or above    *)
(* the largest value the source compares it with.  A handler takes no      *)
(* time: only Advance moves the clocks, and a handler that assigns a       *)
(* timestamp resets its clock to 0.                                        *)
(***************************************************************************)
EXTENDS Integers, Sequences, FiniteSets

(***************************************************************************)
(* Small arithmetic helpers (Math.min, Math.max, Math.abs).                *)
(***************************************************************************)
Min(a, b) == IF a < b THEN a ELSE b

Max(a, b) == IF a > b THEN a ELSE b

Abs(a) == IF a < 0 THEN -a ELSE a

(***************************************************************************)
(* approach(current, target, maxDelta), GlobalClickSound.tsx lines 10-14.  *)
(***************************************************************************)
approachNoClamp(current, target, maxDelta) ==
    IF current < target THEN current + maxDelta
    ELSE IF current > target THEN current - maxDelta
    ELSE current

approachStalls(current, target, maxDelta) ==
    IF current < target THEN Min(target, current + (maxDelta \div 2))
    ELSE IF current > target THEN Max(target, current - (maxDelta \div 2))
    ELSE current

approach(current, target, maxDelta) ==
    IF current < target THEN Min(target, current + maxDelta)
    ELSE IF current > target THEN Max(target, current - maxDelta)
    ELSE current

(***************************************************************************)
(* Units of the fixed-point arithmetic (see "Numbers" above).              *)
(***************************************************************************)
\* a volume of 1.0
VolScale == 30 * 1000
\* a playback rate of 1.0
RateScale == 120 * 1000
\* a wheel intensity of 1.0 (one deltaY unit)
IntensityScale == 2 * 5
\* one second, in the milliseconds the clocks count
MsPerSecond == 10 * 100
\* a tube scroll coordinate of 1.0
TubeScale == 10 * 10
\* angular velocities: units per rad/s
SpinScale == 10 * 10
\* the frame's dt is counted in sixtieths of a second
FramesPerSecond == 6 * 10
\* angles: units per rad, so that velocity * dt needs no division
AngleScale == SpinScale * FramesPerSecond
\* the speed multiplier: units per 1.0
MultScale == 10 * 10

(***************************************************************************)
(* Constants of GlobalClickSound.tsx.                                      *)
(***************************************************************************)
\* clickUrls.length (line 28): the two logical click pools
NumPools == 2
\* makeAudioPool(url, 4, 0.35) (line 43)
PoolSize == 4
\* now - lastPointerDownAtRef.current < 25 (line 60)
DoubleTriggerMs == 25
\* Math.min(0.05, Math.max(0.001, ...)) (line 84), in ms
MinDtWheelMs == 1
MaxDtWheelMs == 50
\* Math.min(220, raw) (line 89)
MaxRawDelta == 220
\* wheelIntensityRef.current / 120 (line 91)
FullIntensity == 120
\* Math.min(0.05, (now - lastRafAt) / 1000) (line 119), in ms
MaxDtMs == 50
\* sinceWheel > 90 (line 124)
DecayAfterMs == 90
\* sinceWheel > 220 (line 145)
StopAfterMs == 220
\* 900 * dtWheel (line 90), per second
IntensitySpeed == 900 * IntensityScale
\* normalized * 0.32 (line 95)
MaxTargetVol == (32 * VolScale) \div 100
\* 1 + normalized * 0.55 (line 94): the span above the rest rate
RateSpan == (55 * RateScale) \div 100
\* the rest rate 1 (lines 37, 48, 126)
RestRate == RateScale
\* 0.9 * dt (line 125), 1.2 * dt (line 126), per second
TargetVolDecay == (9 * VolScale) \div 10
TargetRateDecay == (12 * RateScale) \div 10
\* 3.0 * dt (line 133), 2.0 * dt (line 138), per second
RateSpeed == 3 * RateScale
VolSpeed == 2 * VolScale
\* scrollCurrentVolRef.current < 0.01 (line 145)
VolEpsilon == VolScale \div 100

(***************************************************************************)
(* Constants of ImageTube and FiberScene (the two versions of the scene,   *)
(* src/unnamed/part_000 and part_001, differ in the number of rows).       *)
(***************************************************************************)
\* const rows = 3 (part_000 line 219), const rows = 5 (part_001 line 207)
RowCounts == {3, 5}
\* const ySpacing = 2.7 (part_000 line 223, part_001 line 211)
YSpacing == (27 * TubeScale) \div 10
\* (scrollTargetRef.current - scrollCurrent.current) * 0.12 (line 249), in
\* hundredths
EasePercent == 12
\* event.deltaY * 0.002 (part_000 line 375), in thousandths
ScrollPerMille == 2
\* part_000 line 376: deltaY * 0.004, in thousandths
SpinPerMille == 4
\* part_000 line 263: const damping = 0.92, in hundredths
DampingPercent == 92
\* part_000 line 265: the band of the spin velocity, 2.0
MaxSpin == 2 * SpinScale
\* part_000 line 267: the natural speed 0.25
BaseSpeed == SpinScale \div 4
\* part_000 lines 260-261: the multiplier's targets 1 and 0.05, its
\* easing 0.1 in hundredths
FullMultiplier == MultScale
HoverMultiplier == MultScale \div 20
MultiplierEasePercent == 10
\* part_000 line 113: baseRotation.y = Math.PI / 2
BaseYaw == (15708 * AngleScale) \div (10 * 1000)

(***************************************************************************)
(* Bounds of the model.                                                    *)
(***************************************************************************)
\* approach is exercised on current, target in -MaxVal..MaxVal
MaxVal == 4
\* ... and on maxDelta in 0..MaxDelta
MaxDelta == 3
\* at most MaxPlays dispatches are counted per click pool
MaxPlays == 5
\* at most MaxBurst primary pointer-downs are delivered within one
\* DoubleTriggerMs window
MaxBurst == 3
\* the length of a click sound, in ms (an asset, not in the source)
ClickClipMs == 30
\* the wheel scrolls the tube at most MaxTubeLoops loop heights away from 0
MaxTubeLoops == 2
\* wheel events and frames of the scene in a run of the one-way scroll, of
\* the spin and of the far scroll
MaxUpEvents == 20
MaxSpinEvents == 7
MaxFarEvents == 5
\* loop heights of accumulated scroll in the far-scroll specification
MaxFarLoops == 12

\* enough applications of approach to cover the largest distance with the
\* smallest positive maxDelta
MaxSteps == 2 * MaxVal + 1

\* the saturation points of the three clocks
PointerClockCap == DoubleTriggerMs
WheelClockCap == StopAfterMs + 1
RafClockCap == 2 * MaxDtMs

VARIABLES
    \* ---- repeated application of approach with a fixed target
    aStart,         \* the value the run started from
    aPrev,          \* the value before the last application
    aCur,           \* the current value
    aTarget,        \* the fixed target
    aMaxDelta,      \* the fixed maxDelta
    aSteps,         \* how many times approach has been applied
    \* ---- GlobalClickSound: registrations
    listeners,      \* the document's listeners added by the effect
    rafPending,     \* whether frame rafId is requested and not cancelled
    \* ---- GlobalClickSound: clocks
    sincePointerDown, \* now - lastPointerDownAtRef.current
    sinceWheel,       \* now - lastWheelAtRef.current
    sinceRaf,         \* now - lastRafAt
    \* ---- GlobalClickSound: refs and audio elements
    clickPools,     \* clickPoolsRef.current: pool -> [nextIndex, clips]
    wheelIntensity, \* wheelIntensityRef.current
    scrollTargetRate,  \* scrollTargetRateRef.current
    scrollCurrentRate, \* scrollCurrentRateRef.current
    scrollTargetVol,   \* scrollTargetVolRef.current
    scrollCurrentVol,  \* scrollCurrentVolRef.current
    scrollAudio,    \* scrollAudioRef.current, the looping scroll clip
    \* ---- observation (history) variables
    ev,             \* the event just delivered (kind, its button or
                    \* deltaY, what its play() call did, "none" when it
                    \* made none), NoEvent after time passed
    plays,          \* pool -> number of times the pool was played
    lastClip,       \* pool -> index of the clip of its last play
    log,            \* primary pointer-downs of the last DoubleTriggerMs:
                    \* [age, since (the clock it found), played]
    unhandledRejection, \* a play() promise rejected with no handler
    \* ---- ImageTube's scroll
    rows,           \* const rows: which version of the scene runs
    scrollCurrent,  \* scrollCurrent.current
    scrollTarget,   \* scrollTargetRef.current (FiberScene's tubeScrollTarget)
    \* ---- observation (history) variables of the tube
    wraps,          \* loop heights taken off so far, net
    plainCurrent,   \* the same easing run without the wrap
    plainTarget,    \* the wheel-accumulated target without the wrap
    unwrappedPrev,  \* scrollCurrent + wraps * loopHeight one frame ago
    \* ---- ImageTube's spin, FiberScene's shared refs, HelmetModel
    spinVelocity,   \* spinVelocityRef.current (tubeSpinVelocity)
    naturalDir,     \* naturalDirRef.current (tubeNaturalDir)
    angle,          \* ImageTube's angle.current
    tubeAngle,      \* tubeAngleRef.current (FiberScene's tubeAngle)
    isHovering,     \* ImageTube's isHovering.current (part_000)
    speedMultiplier, \* ImageTube's speedMultiplier.current (part_000)
    yaw,            \* HelmetModel's obj.rotation.y
    phase,          \* "idle" between rendered frames, "helmet" when
                    \* ImageTube's callback of a frame has run and
                    \* HelmetModel's has not yet
    frameDt,        \* dt of the frame being rendered, 0 between frames
    sceneEvents     \* wheel events and frames the scene has had so far

approachVars == <<aStart, aPrev, aCur, aTarget, aMaxDelta, aSteps>>

registrationVars == <<listeners, rafPending>>

clockVars == <<sincePointerDown, sinceWheel, sinceRaf>>

clickVars == <<clickPools, plays, lastClip, log>>

scrollRefVars ==
    <<wheelIntensity, scrollTargetRate, scrollCurrentRate,
      scrollTargetVol, scrollCurrentVol>>

soundVars ==
    <<registrationVars, clockVars, clickVars, scrollRefVars, scrollAudio,
      ev, unhandledRejection>>

scrollVars ==
    <<rows, scrollCurrent, scrollTarget, wraps, plainCurrent, plainTarget,
      unwrappedPrev>>

spinVars == <<spinVelocity, naturalDir, angle, tubeAngle>>

tubeVars ==
    <<scrollVars, spinVars, isHovering, speedMultiplier, yaw, phase, frameDt,
      sceneEvents>>

vars == <<approachVars, soundVars, tubeVars>>

(***************************************************************************)
(* Repeated application of approach.                                       *)
(***************************************************************************)
InitApproach ==
    /\ aStart \in -MaxVal..MaxVal
    /\ aPrev = aStart
    /\ aCur = aStart
    /\ aTarget \in -MaxVal..MaxVal
    /\ aMaxDelta \in 0..MaxDelta
    /\ aSteps = 0

\* the approach variables of a specification that does not exercise them
IdleApproach ==
    /\ aStart = 0
    /\ aPrev = 0
    /\ aCur = 0
    /\ aTarget = 0
    /\ aMaxDelta = 0
    /\ aSteps = 0

\* one more application: current := approach(current, target, maxDelta)
ApproachStep ==
    /\ aSteps < MaxSteps
    /\ aPrev' = aCur
    /\ aCur' = approach(aCur, aTarget, aMaxDelta)
    /\ aSteps' = aSteps + 1
    /\ UNCHANGED <<aStart, aTarget, aMaxDelta>>
    /\ UNCHANGED <<soundVars, tubeVars>>

(***************************************************************************)
(* GlobalClickSound: the state after the effect's setup (lines 42-49,      *)
(* 110-111, 150-153).                                                      *)
(***************************************************************************)
\* new Audio(url) in makeAudioPool (lines 17-22): not playing, at position 0
NewClip == [paused |-> TRUE, currentTime |-> 0]

\* makeAudioPool (lines 16-25)
makeAudioPool(poolSize) ==
    [nextIndex |-> 0, clips |-> [i \in 1..poolSize |-> NewClip]]

Pools == 1..NumPools

NoEvent == [kind |-> "none", arg |-> 0, play |-> "none"]

\* mountNow is performance.now() when the effect runs
InitSound(mountNow) ==
    /\ listeners = {"pointerdown", "wheel"}
    /\ rafPending = TRUE
    \* lastPointerDownAtRef = useRef(0), lastWheelAtRef = useRef(0)
    /\ sincePointerDown = Min(PointerClockCap, mountNow)
    /\ sinceWheel = Min(WheelClockCap, mountNow)
    \* let lastRafAt = performance.now()
    /\ sinceRaf = 0
    /\ clickPools = [p \in Pools |-> makeAudioPool(PoolSize)]
    /\ wheelIntensity = 0
    /\ scrollTargetRate = RestRate
    /\ scrollCurrentRate = RestRate
    /\ scrollTargetVol = 0
    /\ scrollCurrentVol = 0
    /\ scrollAudio = [paused |-> TRUE, volume |-> 0, playbackRate |-> RestRate,
                      atStart |-> TRUE, src |-> "/sounds/scroll.mp3"]
    /\ ev = NoEvent
    /\ plays = [p \in Pools |-> 0]
    /\ lastClip = [p \in Pools |-> 0]
    /\ log = <<>>
    /\ unhandledRejection = FALSE

(***************************************************************************)
(* Time passes: d ms with no handler running.  The clocks move, a playing  *)
(* click clip plays on and ends at its length, the looping scroll clip     *)
(* leaves position 0 while it plays.                                       *)
(***************************************************************************)
\* a click clip d ms later
ClipAfter(clip, d) ==
    IF clip.paused THEN clip
    ELSE IF clip.currentTime + d >= ClickClipMs
         THEN [paused |-> TRUE, currentTime |-> ClickClipMs]
         ELSE [clip EXCEPT !.currentTime = clip.currentTime + d]

\* the log d ms later: entries older than the window are dropped
RECURSIVE LogAfter(_, _)
LogAfter(l, d) ==
    IF l = <<>> THEN <<>>
    ELSE IF Head(l).age + d >= DoubleTriggerMs THEN LogAfter(Tail(l), d)
    ELSE <<[Head(l) EXCEPT !.age = Head(l).age + d]>> \o LogAfter(Tail(l), d)

Advance(d) ==
    /\ d > 0
    /\ sincePointerDown' = Min(PointerClockCap, sincePointerDown + d)
    /\ sinceWheel' = Min(WheelClockCap, sinceWheel + d)
    /\ sinceRaf' = Min(RafClockCap, sinceRaf + d)
    /\ clickPools' =
          [p \in Pools |->
             [clickPools[p] EXCEPT
                !.clips = [i \in 1..Len(clickPools[p].clips) |->
                             ClipAfter(clickPools[p].clips[i], d)]]]
    /\ scrollAudio' =
          IF scrollAudio.paused THEN scrollAudio
          ELSE [scrollAudio EXCEPT !.atStart = FALSE]
    /\ log' = LogAfter(log, d)
    /\ ev' = NoEvent
    /\ UNCHANGED <<registrationVars, scrollRefVars, plays, lastClip,
                   unhandledRejection>>
    /\ UNCHANGED <<approachVars, tubeVars>>

(***************************************************************************)
(* HTMLMediaElement.play() as the handlers use it: "void audio.play()"     *)
(* inside try/catch.  The platform decides the outcome:                    *)
(*   "ok"      playback starts;                                            *)
(*   "throws"  play() throws synchronously: the catch block takes it;      *)
(*   "rejects" play() returns a promise that rejects later (the autoplay   *)
(*             policy's NotAllowedError): the clip stays as it was, the    *)
(*             try/catch is long left, and "void" drops the promise with   *)
(*             no rejection handler.                                       *)
(***************************************************************************)
PlayOutcomes == {"ok", "throws", "rejects"}

\* "void audio.play()" on a clip (lines 73, 103)
PlayStarted(paused, outcome) == IF outcome = "ok" THEN FALSE ELSE paused

\* what the try/catch (lines 71-76, 102-106) leaves unhandled
RejectionLeftUnhandled(outcome) == outcome = "rejects"

(***************************************************************************)
(* onPointerDown (lines 51-77).                                            *)
(***************************************************************************)
Buttons == {0, 1, 2}

IsAnyButton(button) == button # 2

\* lines 53-56: only the primary button goes on
IsPrimaryButton(button) == button = 0

NeverDoubleTrigger(since) == FALSE

DoubleTriggerShortWindow(since) == 2 * since < DoubleTriggerMs

\* line 60: now - lastPointerDownAtRef.current < 25
DoubleTrigger(since) == since < DoubleTriggerMs

NextIndexNoWrap(pool) == Min(pool.nextIndex + 1, Len(pool.clips) - 1)

\* line 69: (pool.nextIndex + 1) % pool.clips.length
NextIndex(pool) == (pool.nextIndex + 1) % Len(pool.clips)

\* lines 72-73: audio.currentTime = 0; void audio.play()
PlayClip(clip, outcome) ==
    [paused |-> PlayStarted(clip.paused, outcome), currentTime |-> 0]

\* lines 63-76 on pool r
Dispatch(r, outcome) ==
    LET pool == clickPools[r]
        index == pool.nextIndex
    IN  /\ plays[r] < MaxPlays
        /\ clickPools' =
              [clickPools EXCEPT
                 ![r] = [nextIndex |-> NextIndex(pool),
                         clips |-> [pool.clips EXCEPT
                                      ![index + 1] = PlayClip(@, outcome)]]]
        /\ plays' = [plays EXCEPT ![r] = @ + 1]
        /\ lastClip' = [lastClip EXCEPT ![r] = index]
        /\ unhandledRejection' =
              (unhandledRejection \/ RejectionLeftUnhandled(outcome))

\* A pointer-down with this button is delivered; r is the value of
\* Math.floor(Math.random() * pools.length) + 1, outcome what play() does.
PointerDown(button, r, outcome) ==
    /\ "pointerdown" \in listeners
    /\ ev' = [kind |-> "pointerdown", arg |-> button,
              play |-> IF IsPrimaryButton(button)
                          /\ ~DoubleTrigger(sincePointerDown)
                       THEN outcome ELSE "none"]
    /\ IF ~IsPrimaryButton(button)
       THEN UNCHANGED <<sincePointerDown, clickVars, unhandledRejection>>
       ELSE /\ Len(log) < MaxBurst
            /\ IF DoubleTrigger(sincePointerDown)
               THEN /\ log' = Append(log, [age |-> 0,
                                            since |-> sincePointerDown,
                                            played |-> FALSE])
                    /\ UNCHANGED <<sincePointerDown, clickPools, plays,
                                   lastClip, unhandledRejection>>
               ELSE /\ sincePointerDown' = 0
                    /\ log' = Append(log, [age |-> 0,
                                            since |-> sincePointerDown,
                                            played |-> TRUE])
                    /\ Dispatch(r, outcome)
    /\ UNCHANGED <<registrationVars, sinceWheel, sinceRaf, scrollRefVars,
                   scrollAudio>>
    /\ UNCHANGED <<approachVars, tubeVars>>

(***************************************************************************)
(* onWheel (lines 79-108).                                                 *)
(***************************************************************************)
\* the intensity at which normalized reaches 1 (line 91)
FullScaled == FullIntensity * IntensityScale

\* line 84: dtWheel, in ms
DtWheel(since) == Min(MaxDtWheelMs, Max(MinDtWheelMs, since))

\* lines 88-89: Math.min(220, Math.abs(event.deltaY))
Clamped(deltaY) == Min(MaxRawDelta, Abs(deltaY)) * IntensityScale

\* lines 91, 94: 1 + Math.min(1, intensity / 120) * 0.55
TargetRate(intensity) ==
    RestRate + (Min(FullScaled, intensity) * RateSpan) \div FullScaled

TargetVolUnbounded(intensity) == (intensity * MaxTargetVol) \div FullScaled

\* lines 91, 95: Math.min(1, intensity / 120) * 0.32
TargetVol(intensity) ==
    (Min(FullScaled, intensity) * MaxTargetVol) \div FullScaled

Wheel(deltaY, outcome) ==
    /\ "wheel" \in listeners
    /\ ev' = [kind |-> "wheel", arg |-> deltaY,
              play |-> IF scrollAudio.paused THEN outcome ELSE "none"]
    /\ LET dtWheel == DtWheel(sinceWheel)
           intensity == approach(wheelIntensity, Clamped(deltaY),
                                 (IntensitySpeed * dtWheel) \div MsPerSecond)
       IN  /\ sinceWheel' = 0
           /\ wheelIntensity' = intensity
           /\ scrollTargetRate' = TargetRate(intensity)
           /\ scrollTargetVol' = TargetVol(intensity)
    /\ IF scrollAudio.paused
       THEN /\ scrollAudio' =
                  [scrollAudio EXCEPT !.paused = PlayStarted(@, outcome)]
            /\ unhandledRejection' =
                  (unhandledRejection \/ RejectionLeftUnhandled(outcome))
       ELSE UNCHANGED <<scrollAudio, unhandledRejection>>
    /\ UNCHANGED <<registrationVars, sincePointerDown, sinceRaf, clickVars,
                   scrollCurrentRate, scrollCurrentVol>>
    /\ UNCHANGED <<approachVars, tubeVars>>

(***************************************************************************)
(* tick (lines 112-149), run by requestAnimationFrame.                     *)
(***************************************************************************)
FrameDtUncapped(since) == since

\* line 119: Math.min(0.05, (now - lastRafAt) / 1000), in ms
FrameDt(since) == Min(MaxDtMs, since)

DecayingFromThreshold(since) == since >= DecayAfterMs

\* line 124: sinceWheel > 90
Decaying(since) == since > DecayAfterMs

KeepTargetVol(vol, dt) == vol

\* line 125: Math.max(0, target - 0.9 * dt)
DecayedTargetVol(vol, dt) ==
    Max(0, vol - (TargetVolDecay * dt) \div MsPerSecond)

\* line 126: approach(target, 1, 1.2 * dt)
DecayedTargetRate(rate, dt) ==
    approach(rate, RestRate, (TargetRateDecay * dt) \div MsPerSecond)

InaudibleFromThreshold(since, vol) ==
    since >= StopAfterMs /\ vol < VolEpsilon

\* line 145: sinceWheel > 220 && scrollCurrentVolRef.current < 0.01
Inaudible(since, vol) == since > StopAfterMs /\ vol < VolEpsilon

Tick ==
    /\ rafPending
    \* line 113: rafId = requestAnimationFrame(tick)
    /\ rafPending' = TRUE
    /\ ev' = [kind |-> "tick", arg |-> 0, play |-> "none"]
    /\ LET dt == FrameDt(sinceRaf)
           decaying == Decaying(sinceWheel)
           targetVol == IF decaying THEN DecayedTargetVol(scrollTargetVol, dt)
                        ELSE scrollTargetVol
           targetRate == IF decaying
                         THEN DecayedTargetRate(scrollTargetRate, dt)
                         ELSE scrollTargetRate
           rate == approach(scrollCurrentRate, targetRate,
                            (RateSpeed * dt) \div MsPerSecond)
           vol == approach(scrollCurrentVol, targetVol,
                           (VolSpeed * dt) \div MsPerSecond)
       IN  /\ sinceRaf' = 0
           /\ scrollTargetVol' = targetVol
           /\ scrollTargetRate' = targetRate
           /\ scrollCurrentRate' = rate
           /\ scrollCurrentVol' = vol
           /\ scrollAudio' =
                 IF Inaudible(sinceWheel, vol)
                 THEN [scrollAudio EXCEPT !.playbackRate = rate,
                                          !.volume = vol,
                                          !.paused = TRUE,
                                          !.atStart = TRUE]
                 ELSE [scrollAudio EXCEPT !.playbackRate = rate,
                                          !.volume = vol]
    /\ UNCHANGED <<listeners, sincePointerDown, sinceWheel, wheelIntensity,
                   clickVars, unhandledRejection>>
    /\ UNCHANGED <<approachVars, tubeVars>>

(***************************************************************************)
(* The effect's cleanup (lines 154-164).                                   *)
(***************************************************************************)
TornDown == scrollAudio.src = ""

KeepFrame(pending) == pending

\* line 158: cancelAnimationFrame(rafId)
CancelFrame(pending) == FALSE

Cleanup ==
    /\ ~TornDown
    /\ ev' = [kind |-> "cleanup", arg |-> 0, play |-> "none"]
    /\ listeners' = listeners \ {"pointerdown", "wheel"}
    /\ rafPending' = CancelFrame(rafPending)
    /\ scrollAudio' = [scrollAudio EXCEPT !.paused = TRUE, !.src = ""]
    /\ UNCHANGED <<clockVars, clickVars, scrollRefVars, unhandledRejection>>
    /\ UNCHANGED <<approachVars, tubeVars>>

(***************************************************************************)
(* The scene: ImageTube's frame callback (part_000 lines 248-269,          *)
(* part_001 lines 236-253), HelmetModel's frame callback (part_000 lines   *)
(* 144-149, part_001 lines 159-164), FiberScene.onWheel (part_000 lines    *)
(* 374-380) and ImageTube's handleHover (part_000 lines 211-212).  The two *)
(* versions differ in the number of rows and in the speed multiplier,      *)
(* which only part_000 has.                                                *)
(***************************************************************************)
\* const loopHeight = rows * ySpacing (part_000 line 224)
loopHeight == rows * YSpacing

\* part_000: rows = 3 and the hover speed multiplier
HasSpeedMultiplier == rows = 3

\* the refs of the spin and of the model as the components create them
\* (part_000 lines 179-181, 335-337; the group's rotation prop, line 151)
InitSpin ==
    /\ spinVelocity = 0
    /\ naturalDir = 1
    /\ angle = 0
    /\ tubeAngle = 0
    /\ isHovering = FALSE
    /\ speedMultiplier = FullMultiplier
    /\ yaw = BaseYaw
    /\ phase = "idle"
    /\ frameDt = 0
    /\ sceneEvents = 0

InitTube ==
    /\ rows \in RowCounts
    /\ scrollCurrent = 0
    /\ scrollTarget = 0
    /\ wraps = 0
    /\ plainCurrent = 0
    /\ plainTarget = 0
    /\ unwrappedPrev = 0
    /\ InitSpin

\* the tube of a specification that does not exercise it
IdleTube ==
    /\ rows = 3
    /\ scrollCurrent = 0
    /\ scrollTarget = 0
    /\ wraps = 0
    /\ plainCurrent = 0
    /\ plainTarget = 0
    /\ unwrappedPrev = 0
    /\ InitSpin

\* a product or quotient of the code rounded toward 0
Trunc(a, b) == IF a >= 0 THEN a \div b ELSE -((-a) \div b)

\* line 249: current + (target - current) * 0.12
Ease(current, target) == current + ((target - current) * EasePercent) \div 100

WrapCurrentOnly(current, target, height) ==
    IF 2 * current > height
    THEN [current |-> current - height, target |-> target, by |-> 1]
    ELSE IF 2 * current < -height
    THEN [current |-> current + height, target |-> target, by |-> -1]
    ELSE [current |-> current, target |-> target, by |-> 0]

\* lines 251-257: past half a loop height, shift current and target by one
\* loop height
Wrap(current, target, height) ==
    IF 2 * current > height
    THEN [current |-> current - height, target |-> target - height, by |-> 1]
    ELSE IF 2 * current < -height
    THEN [current |-> current + height, target |-> target + height,
          by |-> -1]
    ELSE [current |-> current, target |-> target, by |-> 0]

\* part_000 lines 260-261: the multiplier eased toward 0.05 while an image
\* is hovered, toward 1 otherwise; part_001 has no multiplier
EasedMultiplier(multiplier, hovering) ==
    LET targetMultiplier == IF hovering THEN HoverMultiplier
                            ELSE FullMultiplier
    IN  multiplier
          + Trunc((targetMultiplier - multiplier) * MultiplierEasePercent, 100)

\* line 264: spinVelocity * Math.pow(0.92, dt * 60), dt = k / 60 s
RECURSIVE Damped(_, _)
Damped(velocity, k) ==
    IF k = 0 THEN velocity
    ELSE Damped(Trunc(velocity * DampingPercent, 100), k - 1)

ClampedSpinOneSided(velocity) == Min(MaxSpin, velocity)

\* line 265: Math.max(-2.0, Math.min(2.0, spinVelocity))
ClampedSpin(velocity) == Max(-MaxSpin, Min(MaxSpin, velocity))

\* lines 267-268: baseSpeed + spinVelocity * speedMultiplier, where
\* baseSpeed = naturalDir * 0.25 * speedMultiplier
AngularSpeed(dir, velocity, multiplier) ==
    Trunc(dir * BaseSpeed * multiplier, MultScale)
      + Trunc(velocity * multiplier, MultScale)

\* ImageTube's useFrame callback with dt = k / 60 s
TubeFrame(k) ==
    LET wrapped == Wrap(Ease(scrollCurrent, scrollTarget), scrollTarget,
                        loopHeight)
        multiplier == IF HasSpeedMultiplier
                      THEN EasedMultiplier(speedMultiplier, isHovering)
                      ELSE speedMultiplier
        velocity == ClampedSpin(Damped(spinVelocity, k))
        turned == angle + AngularSpeed(naturalDir, velocity, multiplier) * k
    IN  /\ phase = "idle"
        /\ phase' = "helmet"
        /\ frameDt' = k
        /\ scrollCurrent' = wrapped.current
        /\ scrollTarget' = wrapped.target
        /\ wraps' = wraps + wrapped.by
        /\ plainCurrent' = Ease(plainCurrent, plainTarget)
        /\ unwrappedPrev' = scrollCurrent + wraps * loopHeight
        /\ speedMultiplier' = multiplier
        /\ spinVelocity' = velocity
        /\ angle' = turned
        \* line 269: tubeAngleRef.current = angle.current
        /\ tubeAngle' = turned
        /\ sceneEvents' = sceneEvents + 1
        /\ UNCHANGED <<rows, plainTarget, naturalDir, isHovering, yaw>>
        /\ UNCHANGED <<approachVars, soundVars>>

YawIgnoresTube(tube) == BaseYaw

\* part_000 line 148: baseRotation.y - tubeAngleRef.current
Yaw(tube) == BaseYaw - tube

\* HelmetModel's useFrame callback: it runs after ImageTube's in every
\* frame, the two being subscribed in the order they are mounted under the
\* one Suspense boundary (part_000 lines 452-462)
HelmetFrame ==
    /\ phase = "helmet"
    /\ phase' = "idle"
    /\ frameDt' = 0
    /\ yaw' = Yaw(tubeAngle)
    /\ UNCHANGED <<scrollVars, spinVars, isHovering, speedMultiplier,
                   sceneEvents>>
    /\ UNCHANGED <<approachVars, soundVars>>

\* part_000 line 375: event.deltaY * 0.002
ScrollOf(deltaY) == (deltaY * ScrollPerMille * TubeScale) \div 1000

\* part_000 line 376: event.deltaY * 0.004
SpinOf(deltaY) == (deltaY * SpinPerMille * SpinScale) \div 1000

\* part_000 lines 378-379
NaturalDir(dir, deltaY) ==
    IF deltaY < 0 THEN -1 ELSE IF deltaY > 0 THEN 1 ELSE dir

\* the wheel event keeps the accumulated scroll within so many loop heights
WithinLoops(deltaY, loops) ==
    Abs(plainTarget + ScrollOf(deltaY)) <= loops * loopHeight

\* FiberScene.onWheel; handlers run between rendered frames
TubeWheel(deltaY) ==
    /\ phase = "idle"
    /\ scrollTarget' = scrollTarget + ScrollOf(deltaY)
    /\ plainTarget' = plainTarget + ScrollOf(deltaY)
    /\ spinVelocity' = spinVelocity + SpinOf(deltaY)
    /\ naturalDir' = NaturalDir(naturalDir, deltaY)
    /\ sceneEvents' = sceneEvents + 1
    /\ UNCHANGED <<rows, scrollCurrent, wraps, plainCurrent, unwrappedPrev,
                   angle, tubeAngle, isHovering, speedMultiplier, yaw, phase,
                   frameDt>>
    /\ UNCHANGED <<approachVars, soundVars>>

\* ImageTube's handleHover (part_000 line 212), from an image's
\* onPointerEnter (hovering) or onPointerLeave (not hovering)
Hover(hovering) ==
    /\ phase = "idle"
    /\ HasSpeedMultiplier
    /\ isHovering' = hovering
    /\ UNCHANGED <<scrollVars, spinVars, speedMultiplier, yaw, phase, frameDt,
                   sceneEvents>>
    /\ UNCHANGED <<approachVars, soundVars>>

(***************************************************************************)
(* Specifications.  Each draws its inputs from small sets of its own.      *)
(***************************************************************************)
\* a mount long after the page's time origin: both timestamps' initial 0
\* is further back than any threshold
LateMount == 10 * 100

\* ---- repeated application of approach
NextApproach ==
    \/ ApproachStep

InitApproachRun == InitApproach /\ InitSound(LateMount) /\ IdleTube

SpecApproach == InitApproachRun /\ [][NextApproach]_vars

\* ---- the click-sound dispatch: pointer-downs 10 ms or more apart, or at
\* the same instant
ClickGaps == {10, 25}

ClickMounts == {100, LateMount}

ClickOutcomes == {"ok"}

NextClick ==
    \/ \E d \in ClickGaps : Advance(d)
    \/ \E button \in Buttons, r \in Pools, outcome \in ClickOutcomes :
          PointerDown(button, r, outcome)
    \/ Cleanup

InitClick ==
    /\ IdleApproach
    /\ \E mountNow \in ClickMounts : InitSound(mountNow)
    /\ IdleTube

SpecClick == InitClick /\ [][NextClick]_vars

\* ---- the scroll sound: wheel events and frames on a 50 ms grid, one
\* event per instant
ScrollGaps == {50}

ScrollMounts == {100, LateMount}

WheelDeltas == {0, 45, -300}

ScrollOutcomes == {"ok", "rejects"}

NextScroll ==
    \/ \E d \in ScrollGaps : Advance(d)
    \/ \E deltaY \in WheelDeltas, outcome \in ScrollOutcomes :
          ev = NoEvent /\ Wheel(deltaY, outcome)
    \/ ev = NoEvent /\ Tick

InitScroll ==
    /\ IdleApproach
    /\ \E mountNow \in ScrollMounts : InitSound(mountNow)
    /\ IdleTube

SpecScroll == InitScroll /\ [][NextScroll]_vars

\* The browser keeps time moving and, while the frame request stands,
\* keeps calling tick.
SpecScrollLive ==
    /\ InitScroll
    /\ [][NextScroll]_vars
    /\ WF_vars(\E d \in ScrollGaps : Advance(d))
    /\ WF_vars(ev = NoEvent /\ Tick)

\* ---- the scroll sound around its thresholds: time passes in steps of
\* 55 ms and 90 ms, so ticks run exactly 90 ms and exactly 220 ms after a
\* wheel event, one event per instant
RelaxGaps == {55, 90}

RelaxDeltas == {0, 45, -300}

NextRelax ==
    \/ \E d \in RelaxGaps : Advance(d)
    \/ \E deltaY \in RelaxDeltas, outcome \in PlayOutcomes :
          ev = NoEvent /\ Wheel(deltaY, outcome)
    \/ ev = NoEvent /\ Tick

InitRelax ==
    /\ IdleApproach
    /\ InitSound(LateMount)
    /\ IdleTube

SpecRelax == InitRelax /\ [][NextRelax]_vars

\* ---- the easing between frames: frames 25 ms apart and more, wheel
\* events in between, one event per instant
EaseGaps == {25, 50}

EaseDeltas == {-300}

NextEase ==
    \/ \E d \in EaseGaps : Advance(d)
    \/ \E deltaY \in EaseDeltas, outcome \in PlayOutcomes :
          ev = NoEvent /\ Wheel(deltaY, outcome)
    \/ ev = NoEvent /\ Tick

InitEase ==
    /\ IdleApproach
    /\ InitSound(LateMount)
    /\ IdleTube

SpecEase == InitEase /\ [][NextEase]_vars

\* ---- the whole component: pointer-downs, wheel events, frames and the
\* teardown, on the 50 ms grid, one event per instant
AllDeltas == {135}

AllOutcomes == PlayOutcomes

AllButtons == {0, 2}

Next ==
    \/ \E d \in ScrollGaps : Advance(d)
    \/ \E button \in AllButtons, outcome \in AllOutcomes :
          ev = NoEvent /\ PointerDown(button, 1, outcome)
    \/ \E deltaY \in AllDeltas, outcome \in AllOutcomes :
          ev = NoEvent /\ Wheel(deltaY, outcome)
    \/ ev = NoEvent /\ Tick
    \/ Cleanup

Init == IdleApproach /\ InitSound(LateMount) /\ IdleTube

Spec == Init /\ [][Next]_vars

\* ---- the tube scrolled one way: wheel events with deltaY > 0 and frames
UpDeltas == {3000}

NextTubeUp ==
    \/ \E deltaY \in UpDeltas :
          /\ sceneEvents < MaxUpEvents
          /\ WithinLoops(deltaY, MaxTubeLoops)
          /\ TubeWheel(deltaY)
    \/ sceneEvents < MaxUpEvents /\ TubeFrame(1)
    \/ HelmetFrame

InitTubeUp == IdleApproach /\ InitSound(LateMount) /\ InitTube

SpecTubeUp == InitTubeUp /\ [][NextTubeUp]_vars

\* ---- the tube spun both ways: wheel events of both signs, frames of
\* 1/60 s and 3/60 s, an image hovered and left (part_000)
SpinDeltas == {-1000, 250}

SpinFrames == {1, 3}

NextTubeSpin ==
    \/ \E deltaY \in SpinDeltas :
          sceneEvents < MaxSpinEvents /\ TubeWheel(deltaY)
    \/ \E k \in SpinFrames : sceneEvents < MaxSpinEvents /\ TubeFrame(k)
    \/ HelmetFrame
    \/ \E hovering \in BOOLEAN : Hover(hovering)

InitTubeSpin == IdleApproach /\ InitSound(LateMount) /\ InitTube

SpecTubeSpin == InitTubeSpin /\ [][NextTubeSpin]_vars

\* ---- the tube scrolled far between two frames: wheel events whose
\* accumulated deltaY is tens of thousands
FarDeltas == {-40000, 40000}

NextTubeFar ==
    \/ \E deltaY \in FarDeltas :
          /\ sceneEvents < MaxFarEvents
          /\ WithinLoops(deltaY, MaxFarLoops)
          /\ TubeWheel(deltaY)
    \/ sceneEvents < MaxFarEvents /\ TubeFrame(1)
    \/ HelmetFrame

InitTubeFar == IdleApproach /\ InitSound(LateMount) /\ InitTube

SpecTubeFar == InitTubeFar /\ [][NextTubeFar]_vars

(***************************************************************************)
(* C1.  approach(current, target, maxDelta) with maxDelta >= 0 returns a   *)
(* value in the closed interval between current and target: it never       *)
(* overshoots the target and never moves away from it.                     *)
(***************************************************************************)
ApproachStaysBetween ==
    aSteps > 0 =>
        /\ Min(aPrev, aTarget) <= aCur
        /\ aCur <= Max(aPrev, aTarget)

\* an application whose maxDelta exceeded the distance and was cut at target
ApproachClampedAtTarget ==
    /\ aSteps > 0
    /\ aPrev # aTarget
    /\ aMaxDelta > Abs(aPrev - aTarget)
    /\ aCur = aTarget

(***************************************************************************)
(* C2, as stated.  Repeated application with a fixed target and any        *)
(* maxDelta >= 0 moves monotonically toward the target, reaches it after   *)
(* finitely many applications (MaxSteps of them cover every distance of    *)
(* the model at the smallest positive step), and then returns it           *)
(* unchanged.                                                              *)
(***************************************************************************)
ApproachConvergesAnyDelta ==
    /\ aSteps > 0 => Abs(aCur - aTarget) <= Abs(aPrev - aTarget)
    /\ aSteps = MaxSteps => aCur = aTarget
    /\ (aSteps > 0 /\ aPrev = aTarget) => aCur = aTarget

(***************************************************************************)
(* C2, amended.  With maxDelta > 0 repeated application moves              *)
(* monotonically toward the target, on the same side of it, is at the      *)
(* target once the applications times maxDelta cover the starting          *)
(* distance, and returns the target unchanged from then on.  With          *)
(* maxDelta = 0 the value never moves.                                     *)
(***************************************************************************)
ApproachConverges ==
    /\ aSteps > 0 =>
          /\ Abs(aCur - aTarget) <= Abs(aPrev - aTarget)
          /\ (aPrev <= aTarget => aCur <= aTarget)
          /\ (aPrev >= aTarget => aCur >= aTarget)
    /\ (aMaxDelta > 0 /\ aSteps * aMaxDelta >= Abs(aStart - aTarget))
          => aCur = aTarget
    /\ (aSteps > 0 /\ aPrev = aTarget) => aCur = aTarget
    /\ aMaxDelta = 0 => aCur = aStart

\* a run that took several applications to arrive and was applied once more
ApproachArrivedAndStayed ==
    /\ aMaxDelta > 0
    /\ Abs(aStart - aTarget) > 2 * aMaxDelta
    /\ aPrev = aTarget
    /\ aCur = aTarget

(***************************************************************************)
(* C3, as stated.  Of any two primary pointer-downs less than 25 ms apart  *)
(* exactly one invokes play().                                             *)
(***************************************************************************)
ExactlyOneOfTwoPlays ==
    \A i, j \in 1..Len(log) :
        i < j => (log[i].played # log[j].played)

(***************************************************************************)
(* C3, amended.  A primary pointer-down invokes play() exactly when it     *)
(* comes at least 25 ms after the last dispatch, so of two primary         *)
(* pointer-downs less than 25 ms apart at most one plays: the second is    *)
(* suppressed whenever the first played, and both are suppressed when      *)
(* both come within 25 ms after an earlier dispatch.                       *)
(***************************************************************************)
AtMostOneOfTwoPlays ==
    /\ \A i \in 1..Len(log) :
          log[i].played <=> (log[i].since >= DoubleTriggerMs)
    /\ \A i, j \in 1..Len(log) :
          i < j => ~(log[i].played /\ log[j].played)

\* a dispatch followed within the window by a suppressed pointer-down
SecondOfTwoSuppressed ==
    /\ Len(log) >= 2
    /\ log[1].played
    /\ ~log[2].played
    /\ log[1].age > log[2].age

(***************************************************************************)
(* C4.  For each click pool the cursor nextIndex equals the number of      *)
(* times the pool has played modulo the pool size K = 4: it stays in       *)
(* 0..K-1, the N-th play used clips[(N-1) mod K], and the pool keeps its   *)
(* K clips.                                                                *)
(***************************************************************************)
CursorIsPlaysModSize ==
    \A p \in Pools :
        /\ Len(clickPools[p].clips) = PoolSize
        /\ clickPools[p].nextIndex \in 0..(PoolSize - 1)
        /\ clickPools[p].nextIndex = plays[p] % PoolSize
        /\ plays[p] > 0 => lastClip[p] = (plays[p] - 1) % PoolSize

\* a pool that has played once round and begun again
CursorWrapped ==
    \E p \in Pools :
        /\ plays[p] = PoolSize + 1
        /\ clickPools[p].nextIndex = 1
        /\ lastClip[p] = 0

(***************************************************************************)
(* C5.  If wheel events stop arriving while time passes and ticks keep     *)
(* running, the eased scroll volume reaches exactly 0 and the scroll clip  *)
(* is paused, and both stay so: either wheel events keep arriving for      *)
(* ever, or from some point on the clip is paused at volume 0.             *)
(***************************************************************************)
ScrollSoundSettles ==
    \/ []<>(ev.kind = "wheel")
    \/ <>[](/\ scrollAudio.paused
            /\ scrollAudio.volume = 0
            /\ scrollCurrentVol = 0)

\* a tick, more than StopAfterMs after a wheel event that raised the
\* intensity, has left the clip paused, rewound and silent
ScrollSoundSettled ==
    /\ ev.kind = "tick"
    /\ wheelIntensity > 0
    /\ sinceWheel > StopAfterMs
    /\ scrollAudio.paused
    /\ scrollAudio.atStart
    /\ scrollAudio.volume = 0
    /\ scrollCurrentVol = 0
    /\ scrollTargetVol = 0

AllAudioStoppedAtTeardown ==
    TornDown =>
        /\ scrollAudio.paused
        /\ \A p \in Pools : \A i \in 1..PoolSize :
              clickPools[p].clips[i].paused

(***************************************************************************)
(* C9.  A pointer-down whose button is not 0 starts no playback and        *)
(* changes nothing: every pool cursor, every clip (its position and        *)
(* whether it plays) and the last-dispatch timestamp are as before.        *)
(***************************************************************************)
NonPrimaryChangesNothing ==
    [][(ev'.kind = "pointerdown" /\ ev'.arg # 0) =>
          UNCHANGED <<registrationVars, clockVars, clickVars, scrollRefVars,
                      scrollAudio, unhandledRejection>>
    ]_vars

\* a non-primary pointer-down delivered 25 ms or more after the last
\* dispatch, with a clip playing and another one ended
NonPrimaryDelivered ==
    /\ ev.kind = "pointerdown"
    /\ ev.arg = 2
    /\ sincePointerDown >= DoubleTriggerMs
    /\ \E p \in Pools, i \in 1..PoolSize :
          /\ ~clickPools[p].clips[i].paused
          /\ clickPools[p].clips[i].currentTime > 0
    /\ \E p \in Pools, i \in 1..PoolSize :
          /\ clickPools[p].clips[i].paused
          /\ clickPools[p].clips[i].currentTime > 0

(***************************************************************************)
(* C10.  A play() the platform rejects is swallowed by the handler: no     *)
(* rejection is left unhandled.                                            *)
(***************************************************************************)
PlayFailureSwallowed == ~unhandledRejection

(***************************************************************************)
(* C6.  While the wheel-accumulated scroll target only increases,          *)
(* scrollCurrent with one loopHeight added back for every wrap equals,     *)
(* frame by frame, the value the same easing produces without any wrap     *)
(* (and so does the target), and it never decreases from one frame to the  *)
(* next.                                                                   *)
(***************************************************************************)
UnwrappedScrollIsPlainEasing ==
    /\ scrollCurrent + wraps * loopHeight = plainCurrent
    /\ scrollTarget + wraps * loopHeight = plainTarget
    /\ scrollCurrent + wraps * loopHeight >= unwrappedPrev

\* a frame, after the second wrap, that moved the scroll on
ScrollEasedOnAfterWraps ==
    /\ wraps = 2
    /\ scrollCurrent < 0
    /\ scrollCurrent + wraps * loopHeight > unwrappedPrev
    /\ unwrappedPrev > loopHeight + loopHeight \div 2

(***************************************************************************)
(* C12.  HelmetModel's frame callback never writes the shared tube angle,  *)
(* which only ImageTube's frame callback changes, and after each rendered  *)
(* frame the model's yaw is the base rotation PI/2 minus the tube angle    *)
(* ImageTube computed in that frame.                                       *)
(***************************************************************************)
YawFollowsTubeAngle ==
    /\ [](phase = "idle" => yaw = BaseYaw - tubeAngle)
    /\ [][/\ (phase = "helmet" /\ phase' = "idle") =>
                /\ UNCHANGED <<tubeAngle, angle>>
                /\ yaw' = BaseYaw - tubeAngle'
          /\ tubeAngle' # tubeAngle =>
                /\ phase = "idle" /\ phase' = "helmet"
                /\ tubeAngle' = angle'
       ]_vars

\* a rendered frame has turned the tube backwards and the model with it,
\* after an earlier one had turned it forwards
YawTurnedWithTube ==
    /\ phase = "idle"
    /\ naturalDir = -1
    /\ tubeAngle < 0
    /\ yaw > BaseYaw
    /\ sceneEvents >= 3

(***************************************************************************)
(* C14.  Every ImageTube frame update leaves the spin velocity within      *)
(* [-2.0, 2.0], whatever the wheel events added to it before, adds at most *)
(* (0.25 + 2.0) * dt to the tube angle in magnitude, and leaves the spin   *)
(* velocity no larger in magnitude than it found it and of the same sign   *)
(* (or 0).                                                                 *)
(***************************************************************************)
SpinStaysInBand ==
    [][(phase = "idle" /\ phase' = "helmet") =>
          /\ Abs(spinVelocity') <= MaxSpin
          /\ Abs(angle' - angle) <= (BaseSpeed + MaxSpin) * frameDt'
          /\ Abs(spinVelocity') <= Abs(spinVelocity)
          /\ spinVelocity' * spinVelocity >= 0
          /\ spinVelocity # 0 => spinVelocity' * spinVelocity > 0
                                   \/ spinVelocity' = 0
    ]_vars

\* a frame has clamped a spin velocity that the wheel had driven below -2.0
SpinClampedFromBelow ==
    /\ phase = "helmet"
    /\ spinVelocity = -MaxSpin
    /\ frameDt = 1
    /\ naturalDir = -1
    /\ angle < 0

(***************************************************************************)
(* C13.  After every ImageTube frame update scrollCurrent lies within      *)
(* [-loopHeight/2, +loopHeight/2], for any sequence and size of wheel      *)
(* events between frames.                                                  *)
(***************************************************************************)
ScrollStaysInHalfLoop ==
    /\ 2 * scrollCurrent <= loopHeight
    /\ 2 * scrollCurrent >= -loopHeight

(***************************************************************************)
(* C11.  After any interleaving of wheel events and ticks the wheel        *)
(* intensity is in [0, 220], so that the normalized intensity is in        *)
(* [0, 1], the target and the current playback rate are in [1, 1.55], the  *)
(* target and the current volume are in [0, 0.32], and the clip's volume   *)
(* and playback rate are within the same ranges: the volume is never       *)
(* negative and never above 1.                                             *)
(***************************************************************************)
ScrollSoundInRange ==
    /\ wheelIntensity \in 0..(MaxRawDelta * IntensityScale)
    /\ TargetVol(wheelIntensity) \in 0..MaxTargetVol
    /\ scrollTargetRate \in RestRate..(RestRate + RateSpan)
    /\ scrollCurrentRate \in RestRate..(RestRate + RateSpan)
    /\ scrollTargetVol \in 0..MaxTargetVol
    /\ scrollCurrentVol \in 0..MaxTargetVol
    /\ scrollAudio.volume \in 0..MaxTargetVol
    /\ scrollAudio.volume <= VolScale
    /\ scrollAudio.playbackRate \in RestRate..(RestRate + RateSpan)

\* the intensity is beyond full and a tick has written the highest volume
\* and rate to the clip
ScrollSoundAtFull ==
    /\ ev.kind = "tick"
    /\ wheelIntensity > FullScaled
    /\ scrollTargetVol = MaxTargetVol
    /\ scrollAudio.volume = MaxTargetVol
    /\ scrollAudio.playbackRate = RestRate + RateSpan

(***************************************************************************)
(* C15.  A tick that runs 90 ms or less after the most recent wheel event  *)
(* leaves the target volume and the target rate unchanged; a tick that     *)
(* runs more than 90 ms after it lowers the target volume by at most       *)
(* 0.9 * dt, not below 0, and moves the target rate toward 1 by at most    *)
(* 1.2 * dt, not below 1.                                                  *)
(***************************************************************************)
TargetsRelaxOnlyWhenDecaying ==
    [][ev'.kind = "tick" =>
          LET dt == Min(MaxDtMs, sinceRaf)
          IN  IF sinceWheel <= DecayAfterMs
              THEN UNCHANGED <<scrollTargetVol, scrollTargetRate>>
              ELSE /\ scrollTargetVol' <= scrollTargetVol
                   /\ scrollTargetVol' >= 0
                   /\ scrollTargetVol - scrollTargetVol'
                         <= (9 * VolScale * dt) \div (10 * MsPerSecond)
                   /\ scrollTargetRate' <= scrollTargetRate
                   /\ scrollTargetRate' >= RestRate
                   /\ scrollTargetRate - scrollTargetRate'
                         <= (12 * RateScale * dt) \div (10 * MsPerSecond)
    ]_vars

\* a tick has run exactly 90 ms after a wheel event and the targets are
\* still where the wheel event put them
TickAtDecayThreshold ==
    /\ ev.kind = "tick"
    /\ sinceWheel = DecayAfterMs
    /\ wheelIntensity > 0
    /\ scrollTargetVol = TargetVol(wheelIntensity)
    /\ scrollTargetRate = TargetRate(wheelIntensity)

(***************************************************************************)
(* C16, as stated.  The tick pauses the scroll clip only when more than    *)
(* 220 ms have passed since the last wheel event and the eased volume is   *)
(* below 0.01, and then rewinds it; a wheel event that finds the clip      *)
(* paused starts it again.                                                 *)
(***************************************************************************)
WheelAlwaysRestartsClip ==
    [][/\ (ev'.kind = "tick" /\ ~scrollAudio.paused /\ scrollAudio'.paused) =>
             /\ sinceWheel > StopAfterMs
             /\ scrollCurrentVol' < VolEpsilon
             /\ scrollAudio'.atStart
       /\ (ev'.kind = "wheel" /\ scrollAudio.paused) => ~scrollAudio'.paused
    ]_vars

(***************************************************************************)
(* C16, amended.  The tick pauses the scroll clip exactly when more than   *)
(* 220 ms have passed since the last wheel event and the eased volume is   *)
(* below 0.01, and then rewinds it; a tick that runs 220 ms or less after  *)
(* a wheel event leaves the clip playing or paused as it was.  A wheel     *)
(* event that finds the clip paused calls play() on it, and the clip plays *)
(* again when the platform accepts the call; a wheel event that finds it   *)
(* playing calls nothing and leaves it playing.                            *)
(***************************************************************************)
TickPausesWheelCallsPlay ==
    [][/\ (ev'.kind = "tick" /\ ~scrollAudio.paused /\ scrollAudio'.paused) =>
             /\ sinceWheel > StopAfterMs
             /\ scrollCurrentVol' < VolEpsilon
             /\ scrollAudio'.atStart
       /\ (ev'.kind = "tick" /\ sinceWheel > StopAfterMs
             /\ scrollCurrentVol' < VolEpsilon) =>
             scrollAudio'.paused /\ scrollAudio'.atStart
       /\ (ev'.kind = "tick" /\ sinceWheel <= StopAfterMs) =>
             /\ scrollAudio'.paused = scrollAudio.paused
             /\ scrollAudio'.atStart = scrollAudio.atStart
       /\ (ev'.kind = "wheel" /\ scrollAudio.paused) =>
             /\ ev'.play # "none"
             /\ scrollAudio'.paused <=> ev'.play # "ok"
       /\ (ev'.kind = "wheel" /\ ~scrollAudio.paused) =>
             /\ ev'.play = "none"
             /\ ~scrollAudio'.paused
    ]_vars

\* a tick has run exactly 220 ms after a wheel event, the eased volume is
\* below 0.01 and the clip still plays
TickAtStopThreshold ==
    /\ ev.kind = "tick"
    /\ sinceWheel = StopAfterMs
    /\ scrollCurrentVol < VolEpsilon
    /\ ~scrollAudio.paused
    /\ ~scrollAudio.atStart

(***************************************************************************)
(* C17, as stated.  A wheel event changes only the wheel timestamp, the    *)
(* intensity and the target rate and volume; only the tick writes the      *)
(* current rate and volume and the clip's volume and playback rate, and a  *)
(* tick changes the clip's volume by at most 2.0 * dt and its playback     *)
(* rate by at most 3.0 * dt, dt capped at 0.05 s.                          *)
(***************************************************************************)
WheelChangesOnlyTargets ==
    [][/\ ev'.kind = "wheel" =>
             UNCHANGED <<registrationVars, sincePointerDown, sinceRaf,
                         clickVars, scrollCurrentRate, scrollCurrentVol,
                         scrollAudio>>
       /\ <<scrollCurrentRate, scrollCurrentVol, scrollAudio.volume,
            scrollAudio.playbackRate>>' #
          <<scrollCurrentRate, scrollCurrentVol, scrollAudio.volume,
            scrollAudio.playbackRate>> => ev'.kind = "tick"
    ]_vars

(***************************************************************************)
(* C17, amended.  A wheel event changes only the wheel timestamp, the      *)
(* intensity, the target rate and volume and, by calling play() on a       *)
(* paused clip, whether the clip plays; it never changes the current rate  *)
(* or volume or the clip's volume, playback rate or position.  Only the    *)
(* tick writes those, and a tick changes the clip's volume by at most      *)
(* 2.0 * dt and its playback rate by at most 3.0 * dt, where dt is the     *)
(* time since the previous tick capped at 0.05 s: at most 0.1 and 0.15,    *)
(* however many wheel events came in between.                              *)
(***************************************************************************)
WheelLeavesPlaybackToTick ==
    [][/\ ev'.kind = "wheel" =>
             /\ UNCHANGED <<registrationVars, sincePointerDown, sinceRaf,
                            clickVars, scrollCurrentRate, scrollCurrentVol>>
             /\ scrollAudio' = [scrollAudio EXCEPT !.paused = scrollAudio'.paused]
       /\ <<scrollCurrentRate, scrollCurrentVol, scrollAudio.volume,
            scrollAudio.playbackRate>>' #
          <<scrollCurrentRate, scrollCurrentVol, scrollAudio.volume,
            scrollAudio.playbackRate>> => ev'.kind = "tick"
       /\ ev'.kind = "tick" =>
             LET dt == Min(MaxDtMs, sinceRaf)
             IN  /\ Abs(scrollAudio'.volume - scrollAudio.volume)
                       <= (2 * VolScale * dt) \div MsPerSecond
                 /\ Abs(scrollAudio'.volume - scrollAudio.volume)
                       <= VolScale \div 10
                 /\ Abs(scrollAudio'.playbackRate - scrollAudio.playbackRate)
                       <= (3 * RateScale * dt) \div MsPerSecond
                 /\ Abs(scrollAudio'.playbackRate - scrollAudio.playbackRate)
                       <= (15 * RateScale) \div 100
                 /\ scrollAudio'.volume = scrollCurrentVol'
                 /\ scrollAudio'.playbackRate = scrollCurrentRate'
    ]_vars

\* a tick, 25 ms after a wheel event that asked for the full volume, has
\* eased the clip's volume up to 0.1 and no further
EasedByCappedStep ==
    /\ ev.kind = "tick"
    /\ sinceWheel = 25
    /\ scrollAudio.volume = VolScale \div 10
    /\ scrollTargetVol = MaxTargetVol
    /\ ~scrollAudio.paused

(***************************************************************************)
(* C18.  A primary pointer-down within 25 ms of the last dispatch changes  *)
(* nothing: no cursor, no clip, not the last-dispatch timestamp, and it    *)
(* calls no play().  The window is measured from the last pointer-down     *)
(* that dispatched: a suppressed pointer-down has a dispatch as long       *)
(* before it as the clock it found says, and a primary pointer-down 25 ms  *)
(* or more after the last dispatch dispatches, whatever suppressed ones    *)
(* came in between.                                                        *)
(***************************************************************************)
SuppressedChangesNothing ==
    /\ [](\A i \in 1..Len(log) :
            (~log[i].played /\ log[i].age + log[i].since < DoubleTriggerMs) =>
               \E j \in 1..(i - 1) :
                  /\ log[j].played
                  /\ log[j].age - log[i].age = log[i].since)
    /\ [][(ev'.kind = "pointerdown" /\ ev'.arg = 0) =>
             IF sincePointerDown < DoubleTriggerMs
             THEN /\ ev'.play = "none"
                  /\ UNCHANGED <<registrationVars, clockVars, clickPools,
                                 plays, lastClip, scrollRefVars, scrollAudio,
                                 unhandledRejection>>
             ELSE /\ ev'.play # "none"
                  /\ sincePointerDown' = 0
                  /\ \E p \in Pools : plays'[p] = plays[p] + 1
       ]_vars

\* pointer-downs 10 ms apart: two suppressed ones, then, 30 ms after the
\* last dispatch, one that dispatches
StreamPlaysAgain ==
    /\ ev.kind = "pointerdown"
    /\ Len(log) = 3
    /\ ~log[1].played /\ log[1].age = 20
    /\ ~log[2].played /\ log[2].age = 10
    /\ log[3].played /\ log[3].age = 0
    /\ sincePointerDown = 0

=============================================================================
